---------------------------- MODULE Spec2Model ----------------------------
(***************************************************************************)
(* A model of qemu-nbd.c: the MBR partition locator (find_partition and    *)
(* read_partition), the admission gate and accept handler (nbd_can_accept, *)
(* nbd_accept, nbd_client_closed), the termination signal handler and the  *)
(* control loop of main.                                                   *)
(*                                                                         *)
(* The specifications share the variables:                                 *)
(*   SpecLocate  find_partition (lines 114-168) on its own: one call, as   *)
(*               the one of line 607, for every image and partition number *)
(*               of the model;                                             *)
(*   Spec        main, lines 604-649: the export is published, then the    *)
(*               listener, the control loop with its handlers, and the     *)
(*               shutdown;                                                 *)
(*   FairSpec    Spec with main taking each of its own steps in the end;   *)
(*   SpecStray   Spec with an engine that may report a close for a client  *)
(*               it does not hold;                                         *)
(*   SpecAttach  Spec with or without a local device: with one, the worker *)
(*               nbd_client_thread runs beside main and main joins it;     *)
(*   FairAttach  SpecAttach with main and the worker running on and        *)
(*               pending signals being delivered;                          *)
(*   SpecRace    Spec with close notifications arriving from a second      *)
(*               thread, nb_fds++ and nb_fds-- being a load and a store.   *)
(* shared and persistent are configuration: the model draws them from      *)
(* their ranges, as the option parsing (lines 374-385) would set them; the *)
(* main of lines 558-649 leaves them at 1 and 0.  It also leaves device    *)
(* NULL and starts no worker: Spec is that program, SpecAttach the one     *)
(* whose worker was started as the spec describes.  main leaves partition  *)
(* at -1 (line 572), so it never calls find_partition: in Spec the lookup  *)
(* is skipped, and a partition number is an argument of SpecLocate's call  *)
(* only.                                                                   *)
(***************************************************************************)
EXTENDS Integers, Sequences, FiniteSets, TLC

VARIABLES
    \* ---- partition locator and start-up (SpecLocate) ----
    disk,             \* the image: sector index -> sector
    partition,        \* main's partition (-1: none requested)
    dev_offset,       \* main's dev_offset
    fd_size,          \* main's fd_size
    ret,              \* main's ret (0 from opening the image)
    lpc,              \* main's position during start-up
    \* ---- control loop (Spec) ----
    pc,               \* main's position from the listener on
    sigterm_reported, \* static bool sigterm_reported
    nbd_started,      \* static bool nbd_started
    nb_fds,           \* static int nb_fds
    shared,           \* static int shared
    persistent,       \* main's persistent
    exp,              \* the export: "none", "open" or "closed"
    status,           \* the process's exit status (-1 while it runs)
    notified,         \* an event-loop wake-up is pending (qemu_notify_event)
    armed,            \* the listener is polled in this main_loop_wait pass
    dispatched,       \* a handler ran in this main_loop_wait pass
    pending,          \* connections waiting on the listening socket
    calls,            \* history: nbd_accept invocations
    oks,              \* history: accept() calls that returned a descriptor
    regs,             \* history: connections nbd_client_new registered
    closes,           \* history: close notifications received
    strays,           \* history: close notifications with no open client
    \* ---- listener and local-attach worker (SpecAttach) ----
    fd,               \* main's fd: "unset", "socket" or "error" (fd < 0)
    device,           \* main's device is not NULL
    wpc,              \* nbd_client_thread's position ("none": not started)
    wret,             \* the value nbd_client_thread returned
    sigpend,          \* a SIGTERM sent by kill() awaits its handler
    \* ---- nb_fds read and written from two threads (SpecRace) ----
    acc_reg,          \* nb_fds as nbd_accept loaded it for nb_fds++
    cls_reg           \* nb_fds as nbd_client_closed loaded it for nb_fds--

lvars == <<disk, partition, dev_offset, fd_size, ret, lpc>>
svars == <<pc, sigterm_reported, nbd_started, nb_fds, shared, persistent,
           exp, status, notified, armed, dispatched, pending,
           calls, oks, regs, closes, strays>>
avars == <<fd, device, wpc, wret, sigpend>>
rvars == <<acc_reg, cls_reg>>
vars == <<disk, partition, dev_offset, fd_size, ret, lpc,
          pc, sigterm_reported, nbd_started, nb_fds, shared, persistent,
          exp, status, notified, armed, dispatched, pending,
          calls, oks, regs, closes, strays,
          fd, device, wpc, wret, sigpend, acc_reg, cls_reg>>

---------------------------------------------------------------------------
(* Bounds of the model. *)

\* The largest partition number looked up.
MaxPartition == 13
\* The largest configured client limit (shared).
MaxShared == 2
\* The number of connection attempts that reach the listener.
MaxConns == 3
\* The number of close notifications the engine may send with no open client.
MaxStray == 1

---------------------------------------------------------------------------
(* Program constants. *)

EINVAL == 22
ENOENT == 2
EXIT_SUCCESS == 0
EXIT_FAILURE == 1
\* data[510] and data[511] of a valid boot record
SIG0 == 85
SIG1 == 170
\* system types of an extended container
SYS_EXT_LBA == 15
SYS_EXT == 5

---------------------------------------------------------------------------
(* Integer helpers for C's operators on unsigned values.  TLC's integers   *)
(* are 32-bit signed, so a uint32_t or a 64-bit off_t is held as its       *)
(* 16-bit limbs, least significant first: 2 limbs for 32 bits, 4 for 64    *)
(* bits.                                                                   *)

Pow2(n) == 2 ^ n
\* x << n on a small value that is then stored in w bits
Shl(x, n, w) == (x * Pow2(n)) % Pow2(w)

RECURSIVE BitAnd(_, _)
BitAnd(x, y) ==
    IF x = 0 \/ y = 0 THEN 0
    ELSE (x % 2) * (y % 2) + 2 * BitAnd(x \div 2, y \div 2)

RECURSIVE BitOr(_, _)
BitOr(x, y) ==
    IF x = 0 THEN y
    ELSE IF y = 0 THEN x
    ELSE (IF x % 2 = 1 \/ y % 2 = 1 THEN 1 ELSE 0)
         + 2 * BitOr(x \div 2, y \div 2)

\* the limbs of a small non-negative integer, as a 64-bit value
U64(n) == <<n % 65536, n \div 65536, 0, 0>>

\* a limb value is zero
IsZero(x) == \A k \in 1..Len(x) : x[k] = 0

\* the int64_t sector_num that bdrv_read is given for a uint32_t x: the
\* same value in 64 bits, whatever its top bit
SectorIndex(x) == x \o <<0, 0>>

\* x << n for 0 < n < 16 on a limb value, kept to Len(x) limbs
RECURSIVE ShlLimbs(_, _, _, _)
ShlLimbs(x, n, k, carry) ==
    IF k > Len(x) THEN <<>>
    ELSE LET v == x[k] * Pow2(n) + carry IN
         <<v % 65536>> \o ShlLimbs(x, n, k + 1, v \div 65536)

(* read_partition: p is the 16-byte table slot, p[k+1] being the C p[k].   *)

\* p[k] | p[k+1] << 8 | p[k+2] << 16 | p[k+3] << 24 as a uint32_t
uint32_le(p, k) ==
    <<BitOr(p[k + 1], Shl(p[k + 2], 8, 16)),
      BitOr(p[k + 3], Shl(p[k + 4], 8, 16))>>

read_partition(p) ==
    [bootable         |-> p[1],
     start_head       |-> p[2],
     start_cylinder   |-> BitOr(p[4], BitAnd(Shl(p[3], 2, 16), 768)),
     start_sector     |-> BitAnd(p[3], 63),
     system           |-> p[5],
     end_head         |-> p[6],
     end_cylinder     |-> BitOr(p[8], BitAnd(Shl(p[7], 2, 16), 768)) % 256,
     end_sector       |-> BitAnd(p[7], 63),
     start_sector_abs |-> uint32_le(p, 8),
     nb_sectors_abs   |-> uint32_le(p, 12)]

---------------------------------------------------------------------------
(* The storage backend.  The image is a function from sector indices (the  *)
(* 64-bit limb values of the sectors it holds) to sectors; a sector is     *)
(* modelled by the bytes                                                   *)
(* find_partition looks at: sig = <<data[510], data[511]>> and table[i+1]  *)
(* = the 16 bytes at data[446 + 16*i].  A sector with present = FALSE, or  *)
(* an index outside the image, is one whose read fails.                    *)

bdrv_read(d, sector_num) ==
    IF sector_num \in DOMAIN d /\ d[sector_num].present
    THEN [ret |-> 0, data |-> d[sector_num]]
    ELSE [ret |-> -5, data |-> [present |-> FALSE]]

\* a <= b for two limb values of one length, limbs k..1 being left to compare
RECURSIVE LimbsLeq(_, _, _)
LimbsLeq(a, b, k) ==
    IF k = 0 THEN TRUE
    ELSE IF a[k] # b[k] THEN a[k] < b[k]
    ELSE LimbsLeq(a, b, k - 1)

\* x + carry from limb k on, kept to Len(x) limbs
RECURSIVE AddLimbs(_, _, _)
AddLimbs(x, k, carry) ==
    IF k > Len(x) THEN <<>>
    ELSE <<(x[k] + carry) % 65536>>
         \o AddLimbs(x, k + 1, (x[k] + carry) \div 65536)

\* the image's length in bytes: up to the last sector it holds
bdrv_getlength(d) ==
    LET held == {n \in DOMAIN d : d[n].present} IN
    IF held = {} THEN U64(0)
    ELSE LET last == CHOOSE n \in held : \A m \in held : LimbsLeq(m, n, 4)
         IN ShlLimbs(AddLimbs(last, 1, 1), 9, 1, 0)

\* data[510] != 0x55 || data[511] != 0xaa, negated
boot_signature_and(sec) == sec.sig[1] = SIG0 \/ sec.sig[2] = SIG1

boot_signature_ok(sec) == sec.sig[1] = SIG0 /\ sec.sig[2] = SIG1

\* mbr[i].system == 0xF || mbr[i].system == 0x5
is_extended_only5(r) == r.system = SYS_EXT

is_extended(r) == r.system = SYS_EXT_LBA \/ r.system = SYS_EXT

\* (uint64_t)x << 9, stored in an off_t
sectors_to_bytes32(x) == ShlLimbs(x, 9, 1, 0) \o <<0, 0>>

sectors_to_bytes(x) == ShlLimbs(x \o <<0, 0>>, 9, 1, 0)

\* ext_partnum += 4
next_ext_partnum_counted(ext_partnum, ext) ==
    ext_partnum
    + Cardinality({j \in 1..4 : ~IsZero(read_partition(ext[j]).nb_sectors_abs)})

next_ext_partnum(ext_partnum, ext) == ext_partnum + 4

\* What a call leaves behind: it returns ret with the caller's offset and
\* size as they stand, or the process exits inside it (err()).
Returned_cleared(r, off, sz) ==
    [kind |-> "return", ret |-> r,
     offset |-> IF r < 0 THEN U64(0) ELSE off,
     size |-> IF r < 0 THEN U64(0) ELSE sz]

Returned(r, off, sz) == [kind |-> "return", ret |-> r, offset |-> off, size |-> sz]
Exited(off, sz) == [kind |-> "exit", ret |-> EXIT_FAILURE, offset |-> off, size |-> sz]

\* The inner loop over ext[j], j = 0..3: the first non-empty sub-slot whose
\* number is the one asked for, or 0 when there is none.
RECURSIVE ext_loop(_, _, _, _)
ext_loop(ext, j, ext_partnum, part) ==
    IF j >= 4 THEN 0
    ELSE IF IsZero(read_partition(ext[j + 1]).nb_sectors_abs)
         THEN ext_loop(ext, j + 1, ext_partnum, part)
    ELSE IF ext_partnum + j + 1 = part THEN j + 1
    ELSE ext_loop(ext, j + 1, ext_partnum, part)

\* The outer loop over mbr[i], i = 0..3; data is sector 0.
RECURSIVE mbr_loop(_, _, _, _, _, _, _)
mbr_loop(d, data, i, ext_partnum, part, off, sz) ==
    IF i >= 4 THEN Returned(-ENOENT, off, sz)
    ELSE
      LET r == read_partition(data.table[i + 1]) IN
      IF IsZero(r.nb_sectors_abs)
      THEN mbr_loop(d, data, i + 1, ext_partnum, part, off, sz)
      ELSE IF is_extended(r)
      THEN LET rd == bdrv_read(d, SectorIndex(r.start_sector_abs))
               data1 == rd.data IN
           IF rd.ret < 0 THEN Exited(off, sz)
           ELSE LET j == ext_loop(data1.table, 0, ext_partnum, part) IN
                IF j # 0
                THEN LET e == read_partition(data1.table[j]) IN
                     Returned(0, sectors_to_bytes(e.start_sector_abs),
                                 sectors_to_bytes(e.nb_sectors_abs))
                ELSE mbr_loop(d, data, i + 1,
                              next_ext_partnum(ext_partnum, data1.table),
                              part, off, sz)
      ELSE IF i + 1 = part
      THEN Returned(0, sectors_to_bytes(r.start_sector_abs),
                       sectors_to_bytes(r.nb_sectors_abs))
      ELSE mbr_loop(d, data, i + 1, ext_partnum, part, off, sz)

find_partition(d, part, off, sz) ==
    LET rd == bdrv_read(d, U64(0)) IN
    IF rd.ret < 0 THEN Exited(off, sz)
    ELSE IF ~boot_signature_ok(rd.data) THEN Returned(-EINVAL, off, sz)
    ELSE mbr_loop(d, rd.data, 0, 4, part, off, sz)

---------------------------------------------------------------------------
(* The images and partition numbers the locator is run on.                 *)

LE32(n) == <<n % 256, (n \div 256) % 256, (n \div 65536) % 256,
             (n \div 16777216) % 256>>

\* a 16-byte table slot with the given system type, start and count
MkSlot(sys, start, nb) ==
    <<128, 1, 1, 0, sys, 254, 255, 255>> \o start \o nb

EmptySlot == <<0, 0, 0, 0, 0, 0, 0, 0, 0, 0, 0, 0, 0, 0, 0, 0>>

\* the sectors that hold the two extended boot records
ContainerLBA == <<63, 100>>

\* the data partitions a primary slot may hold, one per slot index
PrimaryData ==
    <<MkSlot(131, LE32(2048), LE32(204800)),
      MkSlot(131, LE32(206848), LE32(8388608)),
      MkSlot(7, LE32(8595456), LE32(1)),
      MkSlot(11, <<254, 255, 255, 255>>, <<255, 255, 255, 255>>)>>

PrimarySlots(i) ==
    {EmptySlot, PrimaryData[i],
     MkSlot(5, LE32(ContainerLBA[1]), LE32(1000)),
     MkSlot(15, LE32(ContainerLBA[2]), LE32(2000))}

\* the logical partitions of the first extended boot record
LogicalA(j) == MkSlot(131, LE32(64 + 1000 * j), LE32(1000 - j))

\* which sub-slots of the first extended boot record are populated
PopulatedA == {{}, {1, 2}, {2, 4}, {1, 2, 3, 4}}

Sector(sg, tbl) == [present |-> TRUE, sig |-> sg, table |-> tbl]
NoSector ==
    [present |-> FALSE, sig |-> <<0, 0>>,
     table |-> <<EmptySlot, EmptySlot, EmptySlot, EmptySlot>>]

Signatures == {<<SIG0, SIG1>>, <<SIG0, 0>>, <<SIG1, SIG0>>}

Sectors0 ==
    {Sector(sg, <<a, b, c, d>>) :
        sg \in Signatures,
        a \in PrimarySlots(1), b \in PrimarySlots(2),
        c \in PrimarySlots(3), d \in PrimarySlots(4)}

SectorsA ==
    {NoSector} \cup
    {Sector(<<SIG0, SIG1>>,
            [j \in 1..4 |-> IF j \in P THEN LogicalA(j) ELSE EmptySlot]) :
        P \in PopulatedA}

\* the second extended boot record: a nested container entry, two empty
\* sub-slots and one at the top of the 32-bit range; no boot signature
SectorsB ==
    {Sector(<<0, 0>>, <<EmptySlot, EmptySlot, EmptySlot, EmptySlot>>),
     Sector(<<0, 0>>,
            <<MkSlot(5, LE32(63), LE32(500)), EmptySlot, EmptySlot,
              MkSlot(131, <<255, 255, 255, 255>>, <<255, 255, 255, 254>>)>>)}

\* extended boot records at sector 2^31 and at sector 2^32 - 1, as 32-bit
\* limb values: images of 1 TiB and 2 TiB
HighLBAs == {<<0, 32768>>, <<65535, 65535>>}

\* the 4 on-disk bytes of a 32-bit limb value
LimbBytes(x) == <<x[1] % 256, x[1] \div 256, x[2] % 256, x[2] \div 256>>

\* sector 0 of such an image: the container is in slot 2
SectorsHigh0(h) ==
    {Sector(<<SIG0, SIG1>>, <<a, MkSlot(sys, LimbBytes(h), LE32(4096)),
                             EmptySlot, d>>) :
        a \in {EmptySlot, PrimaryData[1]}, sys \in {SYS_EXT, SYS_EXT_LBA},
        d \in {EmptySlot, PrimaryData[4]}}

\* the extended boot record there: sub-slots 1 and 3 populated
SectorsHigh ==
    {NoSector,
     Sector(<<SIG0, SIG1>>,
            <<MkSlot(131, LE32(7), LE32(9)), EmptySlot,
              MkSlot(131, LimbBytes(<<1, 32768>>), LE32(4095)), EmptySlot>>)}

HighImages ==
    UNION {{(U64(0) :> s0) @@ (SectorIndex(h) :> sh) :
                s0 \in SectorsHigh0(h), sh \in SectorsHigh} :
           h \in HighLBAs}
    \cup {(U64(0) :> s0) : s0 \in UNION {SectorsHigh0(h) : h \in HighLBAs}}

Images ==
    {(U64(0) :> s0) @@ (U64(ContainerLBA[1]) :> sa)
     @@ (U64(ContainerLBA[2]) :> sb) :
        s0 \in Sectors0, sa \in SectorsA, sb \in SectorsB}
    \cup {(U64(0) :> NoSector) @@ (U64(ContainerLBA[1]) :> NoSector)
          @@ (U64(ContainerLBA[2]) :> NoSector)}
    \cup HighImages

PartitionNumbers == 0..MaxPartition

\* the image the control loop's specification starts from
DefaultImage ==
    (U64(0) :> NoSector) @@ (U64(ContainerLBA[1]) :> NoSector)
    @@ (U64(ContainerLBA[2]) :> NoSector)

---------------------------------------------------------------------------
(* find_partition called on its own, with the arguments of line 607: an    *)
(* image, a partition number, and an offset and a size that hold 0 and the *)
(* image's length on entry.  lpc: "lookup" before the call, "export" once  *)
(* it returned, "exit" when the process ended inside it.  The two steps of *)
(* main around the call, lines 606 and 612, follow.                        *)

ServerIdle ==
    /\ pc = "off" /\ sigterm_reported = FALSE /\ nbd_started = FALSE
    /\ nb_fds = 0 /\ shared = 1 /\ persistent = FALSE
    /\ status = -1 /\ notified = FALSE /\ armed = FALSE
    /\ dispatched = FALSE /\ pending = 0
    /\ calls = 0 /\ oks = 0 /\ regs = 0 /\ closes = 0 /\ strays = 0
    /\ fd = "unset" /\ device = FALSE /\ wpc = "none" /\ wret = EXIT_SUCCESS
    /\ sigpend = FALSE /\ acc_reg = <<>> /\ cls_reg = <<>>

InitLocate ==
    /\ disk \in Images
    /\ partition \in PartitionNumbers
    /\ dev_offset = U64(0)
    /\ fd_size = bdrv_getlength(disk)
    /\ ret = 0
    /\ lpc = "lookup"
    /\ exp = "none"
    /\ ServerIdle

UNCHANGED_server ==
    UNCHANGED <<pc, sigterm_reported, nbd_started, nb_fds, shared, persistent,
                notified, armed, dispatched, pending,
                calls, oks, regs, closes, strays, avars, rvars>>

\* one call of find_partition, written as the call of lines 607-610 is: the
\* value returned goes to ret, the outputs to dev_offset and fd_size.  main
\* never gets here (partition is -1), so the step is SpecLocate's only
LookupPartition ==
    /\ lpc = "lookup"
    /\ partition # -1
    /\ \E r \in {find_partition(disk, partition, dev_offset, fd_size)} :
       IF r.kind = "exit"
       THEN /\ lpc' = "exit"
            /\ status' = r.ret
            /\ UNCHANGED <<ret, dev_offset, fd_size>>
       ELSE /\ lpc' = "export"
            /\ ret' = r.ret
            /\ dev_offset' = r.offset
            /\ fd_size' = r.size
            /\ UNCHANGED status
    /\ UNCHANGED <<disk, partition, exp>>
    /\ UNCHANGED_server

\* line 606, partition == -1
SkipLookup ==
    /\ lpc = "lookup"
    /\ partition = -1
    /\ lpc' = "export"
    /\ UNCHANGED <<disk, partition, dev_offset, fd_size, ret, exp, status>>
    /\ UNCHANGED_server

\* line 612
ExportNew ==
    /\ lpc = "export"
    /\ exp' = "open"
    /\ lpc' = "published"
    /\ UNCHANGED <<disk, partition, dev_offset, fd_size, ret, status>>
    /\ UNCHANGED_server

NextLocate == LookupPartition

SpecLocate == InitLocate /\ [][NextLocate]_vars

---------------------------------------------------------------------------
(* The handlers.                                                           *)

\* qemu_notify_event(): a wake-up of the event loop is left pending
qemu_notify_event == TRUE

\* termsig_handler, on <<sigterm_reported, notified>>
termsig_handler_toggle(flag, wake) == <<~flag, qemu_notify_event>>

termsig_handler(flag, wake) == <<TRUE, qemu_notify_event>>

\* nbd_can_accept: nb_fds < shared
nbd_can_accept_le(n, s) == n <= s

nbd_can_accept_always(n, s) == TRUE

nbd_can_accept(n, s) == n < s

\* nbd_client_closed: nb_fds--
nbd_client_closed(n) == n - 1

\* nbd_accept, on <<nbd_started, nb_fds>>: fd_ok is accept() returning a
\* descriptor, client_ok is nbd_client_new returning a client
nbd_accept_counts_refused(started, n, fd_ok, client_ok) ==
    <<TRUE, IF fd_ok THEN n + 1 ELSE n>>

nbd_accept(started, n, fd_ok, client_ok) ==
    <<TRUE, IF fd_ok /\ client_ok THEN n + 1 ELSE n>>

\* the condition of main's do-while loop, line 637
loop_continues_no_persist(sig, pers, started, n) ==
    ~sig /\ (~started \/ n > 0)

loop_continues_no_signal(sig, pers, started, n) ==
    pers \/ ~started \/ n > 0

loop_continues_ge(sig, pers, started, n) ==
    ~sig /\ (pers \/ ~started \/ n >= 0)

loop_continues(sig, pers, started, n) ==
    ~sig /\ (pers \/ ~started \/ n > 0)

\* pthread_join(client_thread, &ret) returns: the worker has returned
pthread_join_any(w) == TRUE

pthread_join(w) == w = "done"

\* the argument of exit(): ret != NULL after the join, or EXIT_SUCCESS
exit_status_success(dev, worker_ret) == EXIT_SUCCESS

exit_status(dev, worker_ret) ==
    IF dev THEN (IF worker_ret # 0 THEN 1 ELSE 0) ELSE EXIT_SUCCESS

---------------------------------------------------------------------------
(* main from line 604 on, with the handlers the event loop dispatches.     *)
(* lpc: "lookup" at line 606, "export" at line 612, "published" after it.  *)
(* pc: "listen" before tcp_socket_incoming, "init" before                  *)
(* qemu_init_main_loop, "enter" before main_loop_wait, "wait" inside it,   *)
(* "check" at the loop condition, "close" before nbd_export_close,         *)
(* "finish" before exit(), "exit" when the process is gone.                *)

Init ==
    /\ disk = DefaultImage
    /\ partition = -1
    /\ dev_offset = U64(0)
    /\ fd_size = bdrv_getlength(DefaultImage)
    /\ ret = 0
    /\ lpc = "lookup"
    /\ exp = "none"
    /\ pc = "listen"
    /\ sigterm_reported = FALSE
    /\ nbd_started = FALSE
    /\ nb_fds = 0
    /\ shared \in 1..MaxShared
    /\ persistent \in BOOLEAN
    /\ status = -1
    /\ notified = FALSE
    /\ armed = FALSE
    /\ dispatched = FALSE
    /\ pending = 0
    /\ calls = 0 /\ oks = 0 /\ regs = 0 /\ closes = 0 /\ strays = 0
    /\ fd = "unset" /\ device = FALSE /\ wpc = "none" /\ wret = EXIT_SUCCESS
    /\ sigpend = FALSE /\ acc_reg = <<>> /\ cls_reg = <<>>

UNCHANGED_config == UNCHANGED <<lvars, shared, persistent, device>>
UNCHANGED_attach == UNCHANGED <<fd, wpc, wret, sigpend>>
UNCHANGED_history == UNCHANGED <<calls, oks, regs, closes, strays>>

\* lines 616-621: the listening socket is made, or main returns 1
SocketIncoming ==
    /\ lpc = "published"
    /\ pc = "listen"
    /\ \E fd_ok \in BOOLEAN :
          IF fd_ok THEN pc' = "init" /\ fd' = "socket" /\ UNCHANGED status
          ELSE pc' = "exit" /\ fd' = "error" /\ status' = 1
    /\ UNCHANGED <<sigterm_reported, nbd_started, nb_fds, exp, notified,
                   armed, dispatched, pending, wpc, wret, sigpend>>
    /\ UNCHANGED_config /\ UNCHANGED rvars /\ UNCHANGED_history

\* lines 626-628: qemu_init_main_loop, qemu_set_fd_handler2.  A wake-up
\* raised before the event loop exists may be kept or lost
InitMainLoop ==
    /\ pc = "init"
    /\ device => wpc # "none"
    /\ pc' = "enter"
    /\ \E kept \in BOOLEAN : notified' = (notified /\ kept)
    /\ UNCHANGED <<sigterm_reported, nbd_started, nb_fds, exp, status,
                   armed, dispatched, pending>>
    /\ UNCHANGED_config /\ UNCHANGED_attach /\ UNCHANGED rvars /\ UNCHANGED_history

\* line 636, main_loop_wait begins: the listener is polled in this pass
\* when nbd_can_accept says so
MainLoopWait ==
    /\ pc = "enter"
    /\ pc' = "wait"
    /\ armed' = nbd_can_accept(nb_fds, shared)
    /\ dispatched' = FALSE
    /\ UNCHANGED <<sigterm_reported, nbd_started, nb_fds, exp, status,
                   notified, pending>>
    /\ UNCHANGED_config /\ UNCHANGED_attach /\ UNCHANGED rvars /\ UNCHANGED_history

\* a client connects to the listening socket
ClientConnect ==
    /\ pc \in {"init", "enter", "wait", "check"}
    /\ calls + pending < MaxConns
    /\ pending' = pending + 1
    /\ UNCHANGED <<pc, sigterm_reported, nbd_started, nb_fds, exp, status,
                   notified, armed, dispatched>>
    /\ UNCHANGED_config /\ UNCHANGED_attach /\ UNCHANGED rvars /\ UNCHANGED_history

\* lines 261-272: the listener's read handler, once in a pass
NbdAccept ==
    /\ pc = "wait"
    /\ armed
    /\ pending > 0
    /\ \E outcome \in {"failed", "refused", "client"} :
          LET fd_ok == outcome # "failed"
              client_ok == outcome = "client"
              after == nbd_accept(nbd_started, nb_fds, fd_ok, client_ok)
          IN /\ nbd_started' = after[1]
             /\ nb_fds' = after[2]
             /\ oks' = IF fd_ok THEN oks + 1 ELSE oks
             /\ regs' = IF fd_ok /\ client_ok THEN regs + 1 ELSE regs
    /\ calls' = calls + 1
    /\ pending' = pending - 1
    /\ armed' = FALSE
    /\ dispatched' = TRUE
    /\ UNCHANGED <<pc, sigterm_reported, exp, status, notified, closes, strays>>
    /\ UNCHANGED_config /\ UNCHANGED_attach /\ UNCHANGED rvars

\* lines 255-259: the engine reports the end of a registered client
ClientClosed ==
    /\ pc = "wait"
    /\ regs - closes > 0
    /\ nb_fds' = nbd_client_closed(nb_fds)
    /\ notified' = qemu_notify_event
    /\ closes' = closes + 1
    /\ dispatched' = TRUE
    /\ UNCHANGED <<pc, sigterm_reported, nbd_started, exp, status, armed,
                   pending, calls, oks, regs, strays>>
    /\ UNCHANGED_config /\ UNCHANGED_attach /\ UNCHANGED rvars

\* lines 255-259 again: the engine reports a close for no open client
StrayClose ==
    /\ pc = "wait"
    /\ regs - closes = 0
    /\ strays < MaxStray
    /\ nb_fds' = nbd_client_closed(nb_fds)
    /\ notified' = qemu_notify_event
    /\ strays' = strays + 1
    /\ dispatched' = TRUE
    /\ UNCHANGED <<pc, sigterm_reported, nbd_started, exp, status, armed,
                   pending, calls, oks, regs, closes>>
    /\ UNCHANGED_config /\ UNCHANGED_attach /\ UNCHANGED rvars

\* main_loop_wait returns once a handler ran or a wake-up is pending; the
\* wait is interruptible by the termination flag
MainLoopReturn ==
    /\ pc = "wait"
    /\ dispatched \/ notified \/ sigterm_reported
    /\ pc' = "check"
    /\ notified' = FALSE
    /\ armed' = FALSE
    /\ dispatched' = FALSE
    /\ UNCHANGED <<sigterm_reported, nbd_started, nb_fds, exp, status, pending>>
    /\ UNCHANGED_config /\ UNCHANGED_attach /\ UNCHANGED rvars /\ UNCHANGED_history

\* line 637
LoopCheck ==
    /\ pc = "check"
    /\ pc' = IF loop_continues(sigterm_reported, persistent, nbd_started, nb_fds)
             THEN "enter" ELSE "close"
    /\ UNCHANGED <<sigterm_reported, nbd_started, nb_fds, exp, status,
                   notified, armed, dispatched, pending>>
    /\ UNCHANGED_config /\ UNCHANGED_attach /\ UNCHANGED rvars /\ UNCHANGED_history

\* line 640
ExportClose ==
    /\ pc = "close"
    /\ exp' = "closed"
    /\ pc' = "finish"
    /\ UNCHANGED <<sigterm_reported, nbd_started, nb_fds, status,
                   notified, armed, dispatched, pending>>
    /\ UNCHANGED_config /\ UNCHANGED_attach /\ UNCHANGED rvars /\ UNCHANGED_history

\* lines 643-649: with a device main joins the worker and exits with
\* ret != NULL, without one it exits with EXIT_SUCCESS; a signal that is
\* pending on the way out has its handler run before the process is gone
ProcessExit ==
    /\ pc = "finish"
    /\ device => pthread_join(wpc)
    /\ ~sigpend
    /\ status' = exit_status(device, wret)
    /\ pc' = "exit"
    /\ UNCHANGED <<sigterm_reported, nbd_started, nb_fds, exp,
                   notified, armed, dispatched, pending>>
    /\ UNCHANGED_config /\ UNCHANGED_attach /\ UNCHANGED rvars /\ UNCHANGED_history

\* lines 170-174: SIGTERM is delivered
Termsig_closes_export ==
    /\ pc # "exit"
    /\ sigterm_reported' = TRUE
    /\ notified' = qemu_notify_event
    /\ exp' = "closed"
    /\ UNCHANGED <<pc, nbd_started, nb_fds, status, armed, dispatched, pending>>
    /\ UNCHANGED_config /\ UNCHANGED_attach /\ UNCHANGED rvars
    /\ UNCHANGED_history

Termsig ==
    /\ pc # "exit"
    /\ LET after == termsig_handler(sigterm_reported, notified) IN
       /\ sigterm_reported' = after[1]
       /\ notified' = after[2]
    /\ UNCHANGED <<pc, nbd_started, nb_fds, exp, status, armed, dispatched,
                   pending>>
    /\ UNCHANGED_config /\ UNCHANGED_attach /\ UNCHANGED rvars /\ UNCHANGED_history

\* the steps main takes by itself
MainStep ==
    \/ SkipLookup \/ ExportNew
    \/ SocketIncoming \/ InitMainLoop \/ MainLoopWait \/ MainLoopReturn
    \/ LoopCheck \/ ExportClose \/ ProcessExit

Next ==
    \/ SkipLookup \/ ExportNew
    \/ SocketIncoming \/ InitMainLoop \/ MainLoopWait \/ MainLoopReturn
    \/ LoopCheck \/ ExportClose \/ ProcessExit
    \/ ClientConnect \/ NbdAccept \/ ClientClosed \/ Termsig

Spec == Init /\ [][Next]_vars

\* main runs on: each of its own steps is taken once it can be
FairSpec ==
    /\ Init /\ [][Next]_vars
    /\ WF_vars(SkipLookup) /\ WF_vars(ExportNew)
    /\ WF_vars(SocketIncoming) /\ WF_vars(InitMainLoop)
    /\ WF_vars(MainLoopWait) /\ WF_vars(MainLoopReturn)
    /\ WF_vars(LoopCheck) /\ WF_vars(ExportClose) /\ WF_vars(ProcessExit)

\* the engine may also report closes for clients it does not hold
NextStray == Next \/ StrayClose

SpecStray == Init /\ [][NextStray]_vars

---------------------------------------------------------------------------
(* The local-attach worker, nbd_client_thread (lines 193-248), beside main. *)
(* wpc: "none" before the thread exists, then the call it is about to make *)
(* ("connect": unix_socket_outgoing, "negotiate": nbd_receive_negotiate,   *)
(* "open": open, "init": nbd_init, "client": nbd_client), "finish" after   *)
(* nbd_client returned 0, "out" at the label out, "done" once it returned. *)

\* lines 203-240: a call that fails jumps to out, one that succeeds goes on
worker_next(pos, ok) ==
    IF ~ok THEN "out"
    ELSE CASE pos = "connect" -> "negotiate"
           [] pos = "negotiate" -> "open"
           [] pos = "open" -> "init"
           [] pos = "init" -> "client"
           [] pos = "client" -> "finish"

\* lines 241-247: kill(getpid(), SIGTERM) and the value returned
worker_exit_silent_out(pos) ==
    [signal |-> pos # "out",
     value |-> IF pos = "out" THEN EXIT_FAILURE ELSE EXIT_SUCCESS]

worker_exit(pos) ==
    [signal |-> TRUE,
     value |-> IF pos = "out" THEN EXIT_FAILURE ELSE EXIT_SUCCESS]

InitAttach ==
    /\ disk = DefaultImage
    /\ partition = -1
    /\ dev_offset = U64(0)
    /\ fd_size = bdrv_getlength(DefaultImage)
    /\ ret = 0
    /\ lpc = "lookup"
    /\ exp = "none"
    /\ pc = "listen"
    /\ sigterm_reported = FALSE
    /\ nbd_started = FALSE
    /\ nb_fds = 0
    /\ shared \in 1..MaxShared
    /\ persistent \in BOOLEAN
    /\ status = -1
    /\ notified = FALSE
    /\ armed = FALSE
    /\ dispatched = FALSE
    /\ pending = 0
    /\ calls = 0 /\ oks = 0 /\ regs = 0 /\ closes = 0 /\ strays = 0
    /\ fd = "unset" /\ device \in BOOLEAN /\ wpc = "none"
    /\ wret = EXIT_SUCCESS
    /\ sigpend = FALSE /\ acc_reg = <<>> /\ cls_reg = <<>>

UNCHANGED_main ==
    UNCHANGED <<pc, nbd_started, nb_fds, exp, status, armed, dispatched,
                pending, fd>>

\* the worker is started once the listener exists, before the event loop
\* is set up
StartWorker ==
    /\ pc = "init"
    /\ device
    /\ wpc = "none"
    /\ wpc' = "connect"
    /\ UNCHANGED <<sigterm_reported, notified, wret, sigpend>>
    /\ UNCHANGED_main
    /\ UNCHANGED_config /\ UNCHANGED rvars /\ UNCHANGED_history

\* lines 203-240: the worker makes its next call
WorkerStep ==
    /\ pc # "exit"
    /\ wpc \in {"connect", "negotiate", "open", "init", "client"}
    /\ \E ok \in BOOLEAN : wpc' = worker_next(wpc, ok)
    /\ UNCHANGED <<sigterm_reported, notified, wret, sigpend>>
    /\ UNCHANGED_main
    /\ UNCHANGED_config /\ UNCHANGED rvars /\ UNCHANGED_history

\* lines 241-247: the worker sends SIGTERM to the process and returns
WorkerExit ==
    /\ pc # "exit"
    /\ wpc \in {"finish", "out"}
    /\ LET out == worker_exit(wpc) IN
       /\ sigpend' = (sigpend \/ out.signal)
       /\ wret' = out.value
    /\ wpc' = "done"
    /\ UNCHANGED <<sigterm_reported, notified>>
    /\ UNCHANGED_main
    /\ UNCHANGED_config /\ UNCHANGED rvars /\ UNCHANGED_history

\* lines 170-174: the SIGTERM the worker sent is delivered
SigDeliver ==
    /\ pc # "exit"
    /\ sigpend
    /\ LET after == termsig_handler(sigterm_reported, notified) IN
       /\ sigterm_reported' = after[1]
       /\ notified' = after[2]
    /\ sigpend' = FALSE
    /\ UNCHANGED <<wpc, wret>>
    /\ UNCHANGED_main
    /\ UNCHANGED_config /\ UNCHANGED rvars /\ UNCHANGED_history

NextAttach == Next \/ StartWorker \/ WorkerStep \/ WorkerExit \/ SigDeliver

SpecAttach == InitAttach /\ [][NextAttach]_vars

\* main runs on, the worker thread is started and returns once it has left
\* its last call, and a pending signal is delivered
FairAttach ==
    /\ InitAttach /\ [][NextAttach]_vars
    /\ WF_vars(SkipLookup) /\ WF_vars(ExportNew)
    /\ WF_vars(SocketIncoming) /\ WF_vars(InitMainLoop)
    /\ WF_vars(MainLoopWait) /\ WF_vars(MainLoopReturn)
    /\ WF_vars(LoopCheck) /\ WF_vars(ExportClose) /\ WF_vars(ProcessExit)
    /\ WF_vars(StartWorker) /\ WF_vars(WorkerExit) /\ WF_vars(SigDeliver)

---------------------------------------------------------------------------
(* nb_fds written from two threads.  nb_fds is a plain int (line 45) and   *)
(* nb_fds++ (line 270) and nb_fds-- (line 257) take no lock: each is a     *)
(* load and a store.  Here the engine reports closes from a thread of its  *)
(* own, so a close may fall between the load and the store of the accept   *)
(* handler, and the other way round.                                       *)

\* lines 267-270, up to the load of nb_fds++: accept(), nbd_started = true,
\* nbd_client_new; a connection that is not registered ends the handler
RaceAcceptLoad ==
    /\ pc = "wait"
    /\ armed
    /\ pending > 0
    /\ acc_reg = <<>>
    /\ \E outcome \in {"failed", "refused", "client"} :
          LET fd_ok == outcome # "failed"
              client_ok == outcome = "client"
              after == nbd_accept(nbd_started, nb_fds, fd_ok, client_ok)
          IN /\ nbd_started' = after[1]
             /\ oks' = IF fd_ok THEN oks + 1 ELSE oks
             /\ regs' = IF fd_ok /\ client_ok THEN regs + 1 ELSE regs
             /\ acc_reg' = IF fd_ok /\ client_ok THEN <<nb_fds>> ELSE <<>>
             /\ dispatched' = ~(fd_ok /\ client_ok)
    /\ calls' = calls + 1
    /\ pending' = pending - 1
    /\ armed' = FALSE
    /\ UNCHANGED <<pc, sigterm_reported, nb_fds, exp, status, notified,
                   closes, strays, cls_reg>>
    /\ UNCHANGED_config /\ UNCHANGED_attach

\* line 270, the store of nb_fds++
RaceAcceptStore ==
    /\ acc_reg # <<>>
    /\ nb_fds' = nbd_accept(nbd_started, acc_reg[1], TRUE, TRUE)[2]
    /\ acc_reg' = <<>>
    /\ dispatched' = TRUE
    /\ UNCHANGED <<pc, sigterm_reported, nbd_started, exp, status, notified,
                   armed, pending, cls_reg>>
    /\ UNCHANGED_config /\ UNCHANGED_attach /\ UNCHANGED_history

\* line 257 on the engine's thread, the load of nb_fds--
RaceCloseLoad ==
    /\ pc # "exit"
    /\ regs - closes > 0
    /\ cls_reg = <<>>
    /\ cls_reg' = <<nb_fds>>
    /\ UNCHANGED <<pc, sigterm_reported, nbd_started, nb_fds, exp, status,
                   notified, armed, dispatched, pending, acc_reg>>
    /\ UNCHANGED_config /\ UNCHANGED_attach /\ UNCHANGED_history

\* lines 257-258 on the engine's thread: the store of nb_fds-- and
\* qemu_notify_event
RaceCloseStore ==
    /\ pc # "exit"
    /\ cls_reg # <<>>
    /\ nb_fds' = nbd_client_closed(cls_reg[1])
    /\ notified' = qemu_notify_event
    /\ closes' = closes + 1
    /\ cls_reg' = <<>>
    /\ UNCHANGED <<pc, sigterm_reported, nbd_started, exp, status, armed,
                   dispatched, pending, calls, oks, regs, strays, acc_reg>>
    /\ UNCHANGED_config /\ UNCHANGED_attach

\* main goes on only outside the accept handler
RaceMainStep == acc_reg = <<>> /\ MainStep

NextRace ==
    \/ RaceMainStep \/ ClientConnect \/ Termsig
    \/ RaceAcceptLoad \/ RaceAcceptStore \/ RaceCloseLoad \/ RaceCloseStore

SpecRace == Init /\ [][NextRace]_vars

---------------------------------------------------------------------------
(* The partition table as the claims read it, from the bytes of the image. *)

\* the lookup was made: find_partition was called for a partition number
Called == partition # -1 /\ lpc \in {"export", "published", "exit"}
\* ... and it returned to main
CallReturned == Called /\ lpc # "exit"

Mbr == disk[U64(0)]
ValidSignature == Mbr.present /\ Mbr.sig = <<85, 170>>

SlotCountBytes(p) == <<p[13], p[14], p[15], p[16]>>
SlotStartBytes(p) == <<p[9], p[10], p[11], p[12]>>
SlotEmpty(p) == SlotCountBytes(p) = <<0, 0, 0, 0>>
SlotIsContainer(p) == ~SlotEmpty(p) /\ p[5] \in {5, 15}

\* 2 * b for a little-endian byte string b, one byte longer
RECURSIVE DoubleBytes(_, _, _)
DoubleBytes(b, k, carry) ==
    IF k > Len(b) THEN <<carry>>
    ELSE <<(2 * b[k] + carry) % 256>>
         \o DoubleBytes(b, k + 1, (2 * b[k] + carry) \div 256)

\* 512 * b as 8 little-endian bytes, for a 4-byte b
Times512(b) == <<0>> \o DoubleBytes(b, 1, 0) \o <<0, 0>>

\* the 8 little-endian bytes of a 64-bit value of the model
BytesOf(x) ==
    <<x[1] % 256, x[1] \div 256, x[2] % 256, x[2] \div 256,
      x[3] % 256, x[3] \div 256, x[4] % 256, x[4] \div 256>>

\* main's dev_offset and fd_size are the byte range of slot p
RangeOf(p) ==
    /\ BytesOf(dev_offset) = Times512(SlotStartBytes(p))
    /\ BytesOf(fd_size) = Times512(SlotCountBytes(p))

\* the sector a container slot points to can be read
SlotStartSector(p) == <<p[9] + 256 * p[10], p[11] + 256 * p[12], 0, 0>>
ContainerReadable(p) ==
    /\ SlotStartSector(p) \in DOMAIN disk
    /\ disk[SlotStartSector(p)].present
ContainerSector(p) == disk[SlotStartSector(p)]

\* the primary slots that are extended containers, in table order
Containers ==
    SelectSeq(<<1, 2, 3, 4>>, LAMBDA i : SlotIsContainer(Mbr.table[i]))
AllContainersReadable ==
    \A k \in 1..Len(Containers) : ContainerReadable(Mbr.table[Containers[k]])

\* partition number n has a matching slot
Matches(n) ==
    \/ /\ n \in 1..4
       /\ ~SlotEmpty(Mbr.table[n])
       /\ ~SlotIsContainer(Mbr.table[n])
    \/ /\ n >= 5
       /\ ((n - 5) \div 4) + 1 <= Len(Containers)
       /\ LET c == Mbr.table[Containers[((n - 5) \div 4) + 1]] IN
          /\ ContainerReadable(c)
          /\ ~SlotEmpty(ContainerSector(c).table[((n - 5) % 4) + 1])

---------------------------------------------------------------------------
(* C1: whenever sector 0 does not end in 0x55 0xAA, find_partition returns *)
(* -EINVAL, for every partition number and every content of the table.     *)
C1_InvalidLayout ==
    (Called /\ Mbr.present /\ Mbr.sig # <<85, 170>>)
        => (CallReturned /\ ret = -EINVAL)

\* a bad signature over a table whose slot 1 holds the partition asked for
C1_Witness ==
    /\ CallReturned /\ Mbr.sig = <<85, 0>> /\ partition = 1
    /\ ~SlotEmpty(Mbr.table[1]) /\ ~SlotIsContainer(Mbr.table[1])
    /\ ret = -EINVAL

(* C2, as claimed: with a valid signature, a number n in 1..4 whose slot   *)
(* is a non-empty data partition is found with offset = start * 512 and    *)
(* size = count * 512, whatever the other slots hold.                      *)
C2_PrimaryFoundAlways ==
    (/\ Called /\ ValidSignature /\ partition \in 1..4
     /\ ~SlotEmpty(Mbr.table[partition])
     /\ ~SlotIsContainer(Mbr.table[partition]))
        => (CallReturned /\ ret = 0 /\ RangeOf(Mbr.table[partition]))

(* C2, amended: the same, provided the sector of every extended container *)
(* in a slot before n can be read; find_partition reads each container it  *)
(* passes, and a failed read ends the process.                             *)
C2_PrimaryFound ==
    (/\ Called /\ ValidSignature /\ partition \in 1..4
     /\ ~SlotEmpty(Mbr.table[partition])
     /\ ~SlotIsContainer(Mbr.table[partition])
     /\ \A i \in 1..(partition - 1) :
            SlotIsContainer(Mbr.table[i]) => ContainerReadable(Mbr.table[i]))
        => (CallReturned /\ ret = 0 /\ RangeOf(Mbr.table[partition]))

\* partition 2 of 2^23 sectors behind a container in slot 1: 2^32 bytes
C2_Witness ==
    /\ CallReturned /\ ValidSignature /\ partition = 2 /\ ret = 0
    /\ SlotIsContainer(Mbr.table[1])
    /\ SlotCountBytes(Mbr.table[2]) = <<0, 0, 128, 0>>
    /\ fd_size = <<0, 0, 1, 0>>
    /\ dev_offset = <<0, 1616, 0, 0>>

(* C3: the k-th extended container of the table holds the numbers          *)
(* 4k+1 .. 4k+4 (k = 1: 5..8, k = 2: 9..12), sub-slot j of it being number *)
(* 4k+j, however many sub-slots the containers before it populate: a       *)
(* populated sub-slot j is found with its own byte range.                  *)
C3_LogicalFound ==
    \A k \in 1..Len(Containers) : \A j \in 1..4 :
        (/\ Called /\ ValidSignature
         /\ partition = 4 * k + j
         /\ \A h \in 1..k : ContainerReadable(Mbr.table[Containers[h]])
         /\ ~SlotEmpty(ContainerSector(Mbr.table[Containers[k]]).table[j]))
            => (/\ CallReturned /\ ret = 0
                /\ RangeOf(ContainerSector(Mbr.table[Containers[k]]).table[j]))

\* number 9 is the first entry of the second container (start sector 63)
\* although the first container populates two sub-slots only
C3_Witness ==
    /\ CallReturned /\ ValidSignature /\ partition = 9 /\ ret = 0
    /\ Len(Containers) >= 2
    /\ ContainerReadable(Mbr.table[Containers[1]])
    /\ LET t == ContainerSector(Mbr.table[Containers[1]]).table IN
       /\ ~SlotEmpty(t[1]) /\ ~SlotEmpty(t[2])
       /\ SlotEmpty(t[3]) /\ SlotEmpty(t[4])
    /\ dev_offset = <<32256, 0, 0, 0>>

(* C4, as claimed: with a valid signature, a partition number with no      *)
(* matching slot makes find_partition return -ENOENT.                      *)
C4_NotFoundAlways ==
    (Called /\ ValidSignature /\ ~Matches(partition))
        => (CallReturned /\ ret = -ENOENT)

(* C4, amended: with a valid signature, a partition number with no         *)
(* matching slot is never found; find_partition returns -ENOENT when the   *)
(* sector of every extended container of the table can be read, and the    *)
(* process exits with a failure inside find_partition when one cannot.     *)
C4_NotFound ==
    (Called /\ ValidSignature /\ ~Matches(partition))
        => IF AllContainersReadable
           THEN CallReturned /\ ret = -ENOENT
           ELSE lpc = "exit" /\ status = EXIT_FAILURE

\* number 5 when sub-slot 1 of the only container is empty, and number 1
\* being a container itself
C4_Witness ==
    /\ CallReturned /\ ValidSignature /\ ret = -ENOENT
    /\ Len(Containers) >= 1
    /\ ContainerReadable(Mbr.table[Containers[1]])
    /\ \/ /\ partition = 5
          /\ SlotEmpty(ContainerSector(Mbr.table[Containers[1]]).table[1])
          /\ ~SlotEmpty(ContainerSector(Mbr.table[Containers[1]]).table[2])
       \/ /\ partition = 1 /\ SlotIsContainer(Mbr.table[1])

---------------------------------------------------------------------------
(* The control loop as the claims read it.                                 *)

\* the control loop has run and stopped
LoopTerminated == pc \in {"close", "finish"} \/ (pc = "exit" /\ exp = "closed")
\* main is inside the control loop
InLoop == pc \in {"enter", "wait", "check"}

(* C5: while as many clients are counted as the limit allows, the accept   *)
(* handler is not run and no connection is admitted: nb_fds can only fall  *)
(* until a close notification has brought it below shared.                 *)
C5_GateClosedAtLimit ==
    [][nb_fds >= shared => (calls' = calls /\ nb_fds' <= nb_fds)]_vars

\* the limit of two is reached with no close, a third connection waits on
\* the listener and a new pass of the loop has left the listener unpolled
C5_Witness ==
    /\ shared >= 2 /\ nb_fds = shared /\ closes = 0
    /\ pc = "wait" /\ ~dispatched /\ pending > 0 /\ ~armed

(* C6: without persistent mode and without a signal, when the loop comes   *)
(* to its condition after a connection was accepted and with no client     *)
(* left, it stops and the export is closed; and from any point of the loop *)
(* where no client is left after one was accepted, the loop stops unless   *)
(* another client is admitted first.                                       *)
C6_StopsAfterLastClient ==
    /\ (pc = "check" /\ ~persistent /\ nbd_started /\ nb_fds = 0
        /\ ~sigterm_reported)
           ~> (pc = "exit" /\ exp = "closed")
    /\ (InLoop /\ ~persistent /\ nbd_started /\ nb_fds = 0)
           ~> (exp = "closed" \/ nb_fds > 0)

\* the process is gone with the export closed, no signal was delivered,
\* and the one client that was served has closed
C6_Witness ==
    /\ pc = "exit" /\ exp = "closed" /\ ~persistent /\ ~sigterm_reported
    /\ nbd_started /\ regs = 1 /\ closes = 1 /\ nb_fds = 0

(* C7: in persistent mode the control loop stops only after the signal     *)
(* handler has set sigterm_reported.                                       *)
C7_PersistentNeedsSignal ==
    (persistent /\ LoopTerminated) => sigterm_reported

\* persistent mode, every served client has closed, the condition was
\* evaluated and the loop goes round again
C7_Witness ==
    /\ persistent /\ ~sigterm_reported /\ pc = "enter"
    /\ nbd_started /\ regs >= 1 /\ closes = regs /\ nb_fds = 0

(* C8: a delivered signal leaves sigterm_reported true, nothing sets it    *)
(* back to false, and the handler run on its own result changes nothing.   *)
C8_SignalSticky ==
    /\ [][Termsig => sigterm_reported']_vars
    /\ [][sigterm_reported => sigterm_reported']_vars
    /\ [](LET once == termsig_handler(sigterm_reported, notified) IN
            /\ once[1]
            /\ termsig_handler(once[1], once[2]) = once)

\* the signal came while a client was being served, and the loop went on
\* to close the export
C8_Witness ==
    /\ sigterm_reported /\ pc = "finish" /\ nb_fds > 0 /\ exp = "closed"

(* C9, as claimed: while no accept() has succeeded and no signal was       *)
(* delivered, nbd_started is false and the control loop has not stopped.   *)
C9_FailedAcceptKeepsWaiting ==
    (oks = 0 /\ ~sigterm_reported) => (~nbd_started /\ ~LoopTerminated)

(* C10, as claimed: nb_fds is never negative, also when the engine reports *)
(* a close for no open client.                                             *)
C10_NeverNegative == nb_fds >= 0

---------------------------------------------------------------------------
(* The exit status, the worker and the shutdown as the claims read them.   *)

\* the worker returned EXIT_FAILURE
WorkerFailed == wpc = "done" /\ wret # EXIT_SUCCESS
\* main got as far as its control loop: the listening socket was created
ListenerCreated == fd = "socket"

(* C11, as claimed: the process's exit status is non-zero exactly when the *)
(* worker reported failure; with no worker, or a worker that reported      *)
(* success, it is 0 whatever happened to the listener and the accepts.     *)
C11_OnlyWorkerFailureFails ==
    pc = "exit" => (status # 0 <=> WorkerFailed)

(* C11, amended: the same once the listening socket has been created; when *)
(* it cannot be created main returns 1, no worker having been started.     *)
C11_ExitStatus ==
    pc = "exit" =>
        IF ListenerCreated
        THEN /\ status \in {0, 1}
             /\ status # 0 <=> WorkerFailed
        ELSE status = 1 /\ wpc = "none" /\ fd = "error"

\* an accept failed, the worker failed, and the process exited with 1
C11_Witness ==
    /\ pc = "exit" /\ ListenerCreated /\ calls > oks
    /\ WorkerFailed /\ status = 1

(* C12 speaks of a start-up that asked for a partition.  main leaves        *)
(* partition at -1 (line 572) and reads no option, so in every execution   *)
(* the lookup of line 606 is skipped and no state of Spec has a failed     *)
(* lookup behind it: nothing is stated for it here.                        *)

(* C13, as claimed: every accept() that returns a descriptor adds exactly  *)
(* one to nb_fds, also when nbd_client_new refuses the connection, and a   *)
(* failed accept() leaves nb_fds as it is.                                 *)
C13_CountedOncePerAccept ==
    [][/\ oks' = oks + 1 => nb_fds' = nb_fds + 1
       /\ (calls' = calls + 1 /\ oks' = oks) => nb_fds' = nb_fds]_vars

(* C13, amended: a run of nbd_accept adds exactly one to nb_fds when       *)
(* accept() returned a descriptor and nbd_client_new registered it, and    *)
(* leaves nb_fds as it is when accept() failed or the registration was     *)
(* refused; nothing else raises nb_fds.                                    *)
C13_CountedOncePerClient ==
    [][/\ calls' = calls + 1 =>
            nb_fds' = nb_fds + (IF regs' = regs + 1 THEN 1 ELSE 0)
       /\ regs' = regs + 1 => (calls' = calls + 1 /\ oks' = oks + 1)
       /\ nb_fds' > nb_fds => regs' = regs + 1]_vars

\* one accept failed, one connection was refused by the engine and one was
\* registered: one client is counted
C13_Witness ==
    /\ calls = 3 /\ oks = 2 /\ regs = 1 /\ closes = 0 /\ nb_fds = 1

C15_WorkerEndRequestsTermination ==
    /\ [](wpc = "done" => (sigpend \/ sigterm_reported))
    /\ (wpc \in {"finish", "out", "done"}) ~> sigterm_reported

\* the worker failed and returned; its signal is about to be delivered
C15_Witness ==
    /\ wpc = "done" /\ wret = EXIT_FAILURE /\ sigpend /\ ~sigterm_reported
    /\ InLoop

(* C16, as claimed: the process never exits before the control loop has    *)
(* stopped and the export was closed, nor before a started worker has      *)
(* finished.                                                               *)
C16_ShutdownOrderAlways ==
    pc = "exit" =>
        (LoopTerminated /\ exp = "closed" /\ (wpc # "none" => wpc = "done"))

(* C16: a server that reached its control loop exits only from the end of  *)
(* main, after the loop has stopped and the export was closed, and with a  *)
(* worker only after the worker returned; the join of the worker is made   *)
(* with the export already closed.                                         *)
C16_ShutdownOrder ==
    /\ []((pc = "exit" /\ ListenerCreated) =>
            (exp = "closed" /\ (wpc # "none" => wpc = "done")))
    /\ []((pc = "finish" /\ device) => exp = "closed")
    /\ [][(pc' = "exit" /\ pc # "exit" /\ ListenerCreated) =>
            (pc = "finish" /\ LoopTerminated)]_vars

\* the loop has stopped on a signal, the export is closed and main waits
\* in the join for a worker that is still in nbd_client
C16_Witness ==
    /\ pc = "finish" /\ device /\ wpc = "client" /\ exp = "closed"
    /\ sigterm_reported

(* C17, as claimed: with closes reported from another thread, no update of *)
(* nb_fds is lost: whenever no increment or decrement is under way, nb_fds *)
(* is the number of registered connections less the number of closes.      *)
C17_NoLostUpdate ==
    (acc_reg = <<>> /\ cls_reg = <<>>) => nb_fds = regs - closes

(* C18: a run of the signal handler, for a signal from outside or from the *)
(* worker, in any state, changes sigterm_reported and the pending wake-up  *)
(* only: nb_fds, nbd_started, shared, the export and persistent keep their *)
(* values; and the handler can run in every state of the living process.   *)
C18_SignalFrame ==
    /\ [][(Termsig \/ SigDeliver) =>
            UNCHANGED <<nb_fds, nbd_started, shared, exp, persistent>>]_vars
    /\ [](pc # "exit" => ENABLED Termsig)

\* the signal came while two clients were being served: both are still
\* counted and the export is still open
C18_Witness ==
    /\ sigterm_reported /\ pc = "wait" /\ nb_fds = 2 /\ nbd_started
    /\ exp = "open"

(* C19: with nbd_accept run only in a pass that found nbd_can_accept true, *)
(* and closes reported on main's thread for registered clients only,       *)
(* 0 <= nb_fds <= shared in every state.                                   *)
C19_WithinLimit == 0 <= nb_fds /\ nb_fds <= shared

\* the limit is reached again after a close and a failed accept
C19_Witness ==
    /\ nb_fds = shared /\ closes >= 1 /\ calls > oks

(* C20: when find_partition returns -EINVAL or -ENOENT, main's dev_offset  *)
(* and fd_size are what they were before the call: 0 and the length of the *)
(* image.                                                                  *)
C20_OutputsKeptOnFailure ==
    (CallReturned /\ ret < 0) =>
        (dev_offset = U64(0) /\ fd_size = bdrv_getlength(disk))

\* not found after a container was searched, on an image of 101 sectors
C20_Witness ==
    /\ CallReturned /\ ret = -ENOENT /\ Len(Containers) >= 1
    /\ AllContainersReadable
    /\ fd_size = U64(512 * 101) /\ dev_offset = U64(0)

===========================================================================
